---- MODULE Spec2Model ----
(***************************************************************************)
(* travelingo: a REST service over one MongoDB collection of Travel        *)
(* records, with a JWT bearer token protecting the write routes.           *)
(*                                                                         *)
(* The model follows the token-protected program (the source file with     *)
(* JWTProtected, ExtractTokenMetadata and GenerateNewAccessToken).  Each   *)
(* HTTP request is one step through the chain Routes registers for its     *)
(* path: the JWTProtected middleware (on the private routes), then the     *)
(* handler, which reads the clock again, checks the token again, validates *)
(* its input, calls the repository once and writes the response.  resp is  *)
(* the exchange just completed: the request, its response, the repository  *)
(* call and the collection as it was before the handler ran; Listen sends  *)
(* it and takes the next request.                                          *)
(*                                                                         *)
(* Spec serves one request at a time.  RaceSpec lets several PUT requests  *)
(* be in their handlers at once: inflight holds each of them between the   *)
(* moment its handler started and the moment its ReplaceOne was applied.   *)
(***************************************************************************)
EXTENDS Integers, Sequences, FiniteSets, TLC

VARIABLES clock, ticks, minutesCount, issued, Collection, nextId,
          resp, pristine, deleted, removed, inflight

vars == <<clock, ticks, minutesCount, issued, Collection, nextId,
          resp, pristine, deleted, removed, inflight>>

(* ------------------------------ bounds -------------------------------- *)

\* number of ObjectIDs primitive.NewObjectID hands out
MaxIds == 2
\* number of times the clock is seen to advance (a minute between requests,
\* a second inside one)
MaxTicks == 2
\* largest JWT_SECRET_KEY_EXPIRE_MINUTES_COUNT
MaxMinutes == 1
\* number of tokens GET /token/new issues
MaxTokens == 1
\* hex digits of an ObjectID (24 in the driver, scaled down)
ObjectIDHexLen == 2
\* number of PUT requests whose handlers run at the same time
MaxInflight == 2

(* --------------------------- small helpers ---------------------------- *)

NoErr == ""
IOErr == "context deadline exceeded"
ErrNoDocuments == "mongo: no documents in result"
ErrInvalidHex == "the provided hex string is not a valid ObjectID"
ErrMissingJWT == "Missing or malformed JWT"
ErrSegments == "token contains an invalid number of segments"
ErrSignature == "signature is invalid"
ErrExpired == "Token is expired"
ErrUnauthorized == "unauthorized, check expiration time of your token"
ErrNoId == "id is not defined"
ErrBody == "invalid character in request body"

NilObjectID == 0

HexDigits ==
    <<"0", "1", "2", "3", "4", "5", "6", "7", "8", "9", "a", "b", "c", "d", "e", "f">>

IsHexChar(c) == \E i \in 1..16 : HexDigits[i] = c

HexVal(c) == (CHOOSE i \in 1..16 : HexDigits[i] = c) - 1

RECURSIVE HexDecode(_)
HexDecode(s) ==
    IF s = <<>> THEN 0
    ELSE 16 * HexDecode(SubSeq(s, 1, Len(s) - 1)) + HexVal(s[Len(s)])

RECURSIVE HexEncode(_, _)
HexEncode(n, len) ==
    IF len = 0 THEN <<>>
    ELSE Append(HexEncode(n \div 16, len - 1), HexDigits[(n % 16) + 1])

\* ObjectID.Hex(): the identifier as the JSON "id" and the path show it
Hex(oid) == HexEncode(oid, ObjectIDHexLen)

\* primitive.ObjectIDFromHex: (ObjectID, error); NilObjectID comes with an error
ObjectIDFromHex(s) ==
    IF Len(s) # ObjectIDHexLen
    THEN [oid |-> NilObjectID, err |-> ErrInvalidHex]
    ELSE IF \E i \in 1..Len(s) : ~IsHexChar(s[i])
    THEN [oid |-> NilObjectID, err |-> ErrInvalidHex]
    ELSE [oid |-> HexDecode(s), err |-> NoErr]

(* ------------------------------ Travel -------------------------------- *)

Travel(oid, name, photo, done) ==
    [ObjectID |-> oid, Name |-> name, Photo |-> photo, Done |-> done]

ZeroTravel == Travel(NilObjectID, "", "", FALSE)

\* the JSON form of a Travel: `json:"id"`, "name", "photo", "done"
TravelJSON(t) == [id |-> Hex(t.ObjectID), name |-> t.Name, photo |-> t.Photo, done |-> t.Done]

\* request bodies: a JSON object (id <<>> when the key is absent) or bytes that do not decode
JsonBody(id, name, photo, done) ==
    [json |-> TRUE, id |-> id, name |-> name, photo |-> photo, done |-> done]

GarbageBody == [json |-> FALSE, id |-> <<>>, name |-> "", photo |-> "", done |-> FALSE]

Bodies ==
    {GarbageBody, JsonBody(<<>>, "a", "p", FALSE), JsonBody(Hex(1), "b", "q", TRUE)}

\* c.BodyParser(&travel): the decoded Travel, or the zero Travel and an error
BodyParser(body) ==
    IF ~body.json THEN [travel |-> ZeroTravel, err |-> ErrBody]
    ELSE IF body.id = <<>>
    THEN [travel |-> Travel(NilObjectID, body.name, body.photo, body.done), err |-> NoErr]
    ELSE LET p == ObjectIDFromHex(body.id) IN
         IF p.err # NoErr THEN [travel |-> ZeroTravel, err |-> p.err]
         ELSE [travel |-> Travel(p.oid, body.name, body.photo, body.done), err |-> NoErr]

\* path parameters a client sends: none, the ids the store may assign, a malformed one
MalformedId == [i \in 1..ObjectIDHexLen |-> "z"]

PathIds == {<<>>, MalformedId} \cup {Hex(i) : i \in 1..MaxIds}

(* --------------------------- Token Authority -------------------------- *)

\* os.Getenv("JWT_SECRET_KEY")
JWT_SECRET_KEY == "secret"

\* HS256 over the claims: only the holder of key can produce it for exp
HMAC(key, exp) == [key |-> key, exp |-> exp]

\* a token string: three segments, the exp claim and the signature
SignedString(exp, key) == [segments |-> 3, exp |-> exp, sig |-> HMAC(key, exp)]

EmptyCred == [segments |-> 0, exp |-> 0, sig |-> HMAC("", 0)]

GarbageCred == [segments |-> 1, exp |-> 0, sig |-> HMAC("", 0)]

\* fault: the lifetime added in seconds instead of minutes
GenerateNewAccessToken_Seconds(now, minutes) == SignedString(now + minutes, JWT_SECRET_KEY)

\* claims["exp"] = time.Now().Add(time.Minute * minutesCount).Unix(), signed with the secret
GenerateNewAccessToken(now, minutes) == SignedString(now + 60 * minutes, JWT_SECRET_KEY)

\* fault: the signature is not verified
jwtParse_NoSignature(cred, key, now) ==
    IF cred.segments # 3 THEN [exp |-> 0, err |-> ErrSegments]
    ELSE IF now > cred.exp THEN [exp |-> 0, err |-> ErrExpired]
    ELSE [exp |-> cred.exp, err |-> NoErr]

\* jwt.Parse(tokenString, keyFunc): segments, signature, then the exp claim (now <= exp)
jwtParse(cred, key, now) ==
    IF cred.segments # 3 THEN [exp |-> 0, err |-> ErrSegments]
    ELSE IF cred.sig # HMAC(key, cred.exp) THEN [exp |-> 0, err |-> ErrSignature]
    ELSE IF now > cred.exp THEN [exp |-> 0, err |-> ErrExpired]
    ELSE [exp |-> cred.exp, err |-> NoErr]

\* the Authorization header: scheme, separator and credential; all empty when absent
Header(scheme, sep, cred) == [scheme |-> scheme, sep |-> sep, cred |-> cred]

NoHeader == Header("", "", EmptyCred)

SchemeLen(s) == CASE s = "Bearer" -> 6 [] s = "Basic" -> 5 [] OTHER -> 0

AuthLen(h) ==
    SchemeLen(h.scheme) + (IF h.sep = "" THEN 0 ELSE 1) + 16 * h.cred.segments

\* strings.Split(bearToken, " "): the second of exactly two parts, else ""
extractToken(h) == IF h.sep = " " THEN h.cred ELSE EmptyCred

\* verifyToken: jwt.Parse(extractToken(c), jwtKeyFunc)
verifyToken(h, now) == jwtParse(extractToken(h), JWT_SECRET_KEY, now)

\* ExtractTokenMetadata: the exp claim of the verified token
ExtractTokenMetadata(h, now) ==
    LET token == verifyToken(h, now) IN
    IF token.err # NoErr THEN [Expires |-> 0, err |-> token.err]
    ELSE [Expires |-> token.exp, err |-> NoErr]

(* ----------------------------- responses ------------------------------ *)

NilData == [kind |-> "nil", travels |-> <<>>, msg |-> ""]

TravelData(t) == [kind |-> "travel", travels |-> <<TravelJSON(t)>>, msg |-> ""]

TravelsData(ts) ==
    [kind |-> "travels", travels |-> [i \in 1..Len(ts) |-> TravelJSON(ts[i])], msg |-> ""]

\* fault: the caller's status is kept when there is an error
response_KeepsStatus(data, httpStatus, err) ==
    IF err # NoErr
    THEN [status |-> httpStatus, out |-> [kind |-> "error", travels |-> <<>>, msg |-> err]]
    ELSE IF data.kind # "nil"
    THEN [status |-> httpStatus, out |-> data]
    ELSE [status |-> httpStatus, out |-> NilData]

\* response(data, httpStatus, err, c)
response(data, httpStatus, err) ==
    IF err # NoErr
    THEN [status |-> 500, out |-> [kind |-> "error", travels |-> <<>>, msg |-> err]]
    ELSE IF data.kind # "nil"
    THEN [status |-> httpStatus, out |-> data]
    ELSE [status |-> httpStatus, out |-> NilData]

\* fault: every middleware error is answered 401
jwtError_Always401(err) ==
    [status |-> 401, out |-> [kind |-> "jwtError", travels |-> <<>>, msg |-> err]]

\* jwtError(c, err): 400 for the missing-or-malformed message, 401 otherwise
jwtError(err) ==
    IF err = ErrMissingJWT
    THEN [status |-> 400, out |-> [kind |-> "jwtError", travels |-> <<>>, msg |-> err]]
    ELSE [status |-> 401, out |-> [kind |-> "jwtError", travels |-> <<>>, msg |-> err]]

\* the extractor of the middleware: scheme "Bearer", then everything after one more byte
jwtFromHeader(h) ==
    IF AuthLen(h) > 7 /\ h.scheme = "Bearer"
    THEN [cred |-> IF h.sep = "" THEN GarbageCred ELSE h.cred, err |-> NoErr]
    ELSE [cred |-> EmptyCred, err |-> ErrMissingJWT]

\* jwtMiddleware.New(config): pass to the handler, or the reply of ErrorHandler
JWTProtected(h, now) ==
    LET auth == jwtFromHeader(h) IN
    IF auth.err # NoErr
    THEN [pass |-> FALSE, reply |-> jwtError(auth.err)]
    ELSE LET token == jwtParse(auth.cred, JWT_SECRET_KEY, now) IN
         IF token.err = NoErr
         THEN [pass |-> TRUE, reply |-> response(NilData, 200, NoErr)]
         ELSE [pass |-> FALSE, reply |-> jwtError(token.err)]

(* ----------------------------- Record Store --------------------------- *)

Match(coll, oid) == {i \in 1..Len(coll) : coll[i].ObjectID = oid}

First(S) == CHOOSE i \in S : \A j \in S : i <= j

\* findAll: every document, in the collection's order
findAll(coll, io) ==
    IF io # NoErr THEN [travels |-> <<>>, err |-> io]
    ELSE [travels |-> coll, err |-> NoErr]

\* findOne: parse the id, then FindOne and Decode
findOne(coll, id, io) ==
    LET p == ObjectIDFromHex(id) IN
    IF p.err # NoErr THEN [travel |-> ZeroTravel, oid |-> p.oid, called |-> FALSE, err |-> p.err]
    ELSE IF io # NoErr THEN [travel |-> ZeroTravel, oid |-> p.oid, called |-> TRUE, err |-> io]
    ELSE IF Match(coll, p.oid) = {}
    THEN [travel |-> ZeroTravel, oid |-> p.oid, called |-> TRUE, err |-> ErrNoDocuments]
    ELSE [travel |-> coll[First(Match(coll, p.oid))], oid |-> p.oid, called |-> TRUE,
          err |-> NoErr]

\* fault: an id the caller supplied is kept
insertOne_KeepsCallerId(coll, travel, newId, io) ==
    LET t == IF travel.ObjectID # NilObjectID THEN travel
             ELSE [travel EXCEPT !.ObjectID = newId] IN
    IF io # NoErr THEN [coll |-> coll, travel |-> t, err |-> io]
    ELSE IF Match(coll, t.ObjectID) # {}
    THEN [coll |-> coll, travel |-> t, err |-> "E11000 duplicate key error"]
    ELSE [coll |-> Append(coll, t), travel |-> t, err |-> NoErr]

\* insertOne: travel.ObjectID = NewObjectID(), then InsertOne
insertOne(coll, travel, newId, io) ==
    LET t == [travel EXCEPT !.ObjectID = newId] IN
    IF io # NoErr THEN [coll |-> coll, travel |-> t, err |-> io]
    ELSE IF Match(coll, newId) # {}
    THEN [coll |-> coll, travel |-> t, err |-> "E11000 duplicate key error"]
    ELSE [coll |-> Append(coll, t), travel |-> t, err |-> NoErr]

\* fault: the replacement keeps the id the body carried
updateOne_KeepsBodyId(coll, id, travel, io) ==
    LET oid == ObjectIDFromHex(id).oid
        t == IF travel.ObjectID # NilObjectID THEN travel
             ELSE [travel EXCEPT !.ObjectID = oid]
        m == Match(coll, oid)
    IN  IF io # NoErr THEN [coll |-> coll, oid |-> oid, called |-> TRUE, err |-> io]
        ELSE IF m = {} THEN [coll |-> coll, oid |-> oid, called |-> TRUE, err |-> NoErr]
        ELSE [coll |-> [coll EXCEPT ![First(m)] = t], oid |-> oid, called |-> TRUE,
              err |-> NoErr]

\* fault: only the fields of the body that are not zero values are written
updateOne_SetFields(coll, id, travel, io) ==
    LET oid == ObjectIDFromHex(id).oid
        m == Match(coll, oid)
        old == coll[First(m)]
        t == [ObjectID |-> oid,
              Name |-> IF travel.Name # "" THEN travel.Name ELSE old.Name,
              Photo |-> IF travel.Photo # "" THEN travel.Photo ELSE old.Photo,
              Done |-> IF travel.Done THEN TRUE ELSE old.Done]
    IN  IF io # NoErr THEN [coll |-> coll, oid |-> oid, called |-> TRUE, err |-> io]
        ELSE IF m = {} THEN [coll |-> coll, oid |-> oid, called |-> TRUE, err |-> NoErr]
        ELSE [coll |-> [coll EXCEPT ![First(m)] = t], oid |-> oid, called |-> TRUE,
              err |-> NoErr]

\* fault: ReplaceOne with upsert
updateOne_Upsert(coll, id, travel, io) ==
    LET oid == ObjectIDFromHex(id).oid
        t == [travel EXCEPT !.ObjectID = oid]
        m == Match(coll, oid)
    IN  IF io # NoErr THEN [coll |-> coll, oid |-> oid, called |-> TRUE, err |-> io]
        ELSE IF m = {}
        THEN [coll |-> Append(coll, t), oid |-> oid, called |-> TRUE, err |-> NoErr]
        ELSE [coll |-> [coll EXCEPT ![First(m)] = t], oid |-> oid, called |-> TRUE,
              err |-> NoErr]

\* updateOne: the parse error is dropped; ReplaceOne on {_id: travel.ObjectID}, no upsert
updateOne(coll, id, travel, io) ==
    LET oid == ObjectIDFromHex(id).oid
        t == [travel EXCEPT !.ObjectID = oid]
        m == Match(coll, oid)
    IN  IF io # NoErr THEN [coll |-> coll, oid |-> oid, called |-> TRUE, err |-> io]
        ELSE IF m = {} THEN [coll |-> coll, oid |-> oid, called |-> TRUE, err |-> NoErr]
        ELSE [coll |-> [coll EXCEPT ![First(m)] = t], oid |-> oid, called |-> TRUE,
              err |-> NoErr]

\* fault: success is reported and nothing is deleted
deleteOne_DeletesNothing(coll, id, io) ==
    LET p == ObjectIDFromHex(id) IN
    IF p.err # NoErr THEN [coll |-> coll, oid |-> p.oid, called |-> FALSE, err |-> p.err]
    ELSE IF io # NoErr THEN [coll |-> coll, oid |-> p.oid, called |-> TRUE, err |-> io]
    ELSE [coll |-> coll, oid |-> p.oid, called |-> TRUE, err |-> NoErr]

\* deleteOne: parse the id, then DeleteOne on {_id: objectId}
deleteOne(coll, id, io) ==
    LET p == ObjectIDFromHex(id)
        m == Match(coll, p.oid)
    IN  IF p.err # NoErr THEN [coll |-> coll, oid |-> p.oid, called |-> FALSE, err |-> p.err]
        ELSE IF io # NoErr THEN [coll |-> coll, oid |-> p.oid, called |-> TRUE, err |-> io]
        ELSE IF m = {} THEN [coll |-> coll, oid |-> p.oid, called |-> TRUE, err |-> NoErr]
        ELSE [coll |-> [i \in 1..(Len(coll) - 1) |->
                          IF i < First(m) THEN coll[i] ELSE coll[i + 1]],
              oid |-> p.oid, called |-> TRUE, err |-> NoErr]

(* --------------------------- Request Handlers ------------------------- *)

\* what a handler leaves behind: the response, the repository call and the collection
Done(reply, op, coll, newIds) ==
    [status |-> reply.status, out |-> reply.out, op |-> op, coll |-> coll, newIds |-> newIds]

Op(kind, oid, err, db) == [kind |-> kind, oid |-> oid, err |-> err, db |-> db]

NoOpDone(reply, coll) == Done(reply, Op("none", NilObjectID, NoErr, FALSE), coll, 0)

\* GET /health
health(req, now, coll, newId, io) ==
    NoOpDone([status |-> 200, out |-> [kind |-> "health", travels |-> <<>>, msg |-> "ok"]], coll)

\* GET /token/new: GetNewAccessToken; the token itself is kept in issued
GetNewAccessToken(req, now, coll, newId, io) ==
    NoOpDone([status |-> 200, out |-> [kind |-> "token", travels |-> <<>>, msg |-> ""]], coll)

\* getTravels
getTravels(req, now, coll, newId, io) ==
    LET r == findAll(coll, io) IN
    Done(response(TravelsData(r.travels), 200, r.err),
         Op("findAll", NilObjectID, r.err, TRUE), coll, 0)

\* getTravel
getTravel(req, now, coll, newId, io) ==
    IF req.id = <<>>
    THEN NoOpDone(response(NilData, 422, ErrNoId), coll)
    ELSE LET r == findOne(coll, req.id, io) IN
         Done(response(TravelData(r.travel), 200, r.err),
              Op("findOne", r.oid, r.err, r.called), coll, 0)

\* createTravel
createTravel(req, now, coll, newId, io) ==
    LET claims == ExtractTokenMetadata(req.header, now) IN
    IF claims.err # NoErr
    THEN NoOpDone(response(NilData, 500, claims.err), coll)
    ELSE IF now > claims.Expires
    THEN NoOpDone(response(NilData, 401, ErrUnauthorized), coll)
    ELSE LET parsed == BodyParser(req.body) IN
         IF parsed.err # NoErr
         THEN NoOpDone(response(TravelData(parsed.travel), 422, parsed.err), coll)
         ELSE LET r == insertOne(coll, parsed.travel, newId, io) IN
              Done(response(TravelData(r.travel), 200, r.err),
                   Op("insertOne", newId, r.err, TRUE), r.coll, 1)

\* fault: the path id and the body are examined before the token
updateTravel_ValidatesFirst(req, now, coll, newId, io) ==
    LET claims == ExtractTokenMetadata(req.header, now)
        parsed == BodyParser(req.body)
    IN  IF req.id = <<>>
        THEN NoOpDone(response(NilData, 422, ErrNoId), coll)
        ELSE IF parsed.err # NoErr
        THEN NoOpDone(response(TravelData(parsed.travel), 422, parsed.err), coll)
        ELSE IF claims.err # NoErr
        THEN NoOpDone(response(NilData, 500, claims.err), coll)
        ELSE IF now > claims.Expires
        THEN NoOpDone(response(NilData, 401, ErrUnauthorized), coll)
        ELSE LET r == updateOne(coll, req.id, parsed.travel, io) IN
             Done(response(NilData, 204, r.err),
                  Op("updateOne", r.oid, r.err, r.called), r.coll, 0)

\* updateTravel
updateTravel(req, now, coll, newId, io) ==
    LET claims == ExtractTokenMetadata(req.header, now) IN
    IF claims.err # NoErr
    THEN NoOpDone(response(NilData, 500, claims.err), coll)
    ELSE IF now > claims.Expires
    THEN NoOpDone(response(NilData, 401, ErrUnauthorized), coll)
    ELSE IF req.id = <<>>
    THEN NoOpDone(response(NilData, 422, ErrNoId), coll)
    ELSE LET parsed == BodyParser(req.body) IN
         IF parsed.err # NoErr
         THEN NoOpDone(response(TravelData(parsed.travel), 422, parsed.err), coll)
         ELSE LET r == updateOne(coll, req.id, parsed.travel, io) IN
              Done(response(NilData, 204, r.err),
                   Op("updateOne", r.oid, r.err, r.called), r.coll, 0)

\* deleteTravel
deleteTravel(req, now, coll, newId, io) ==
    LET claims == ExtractTokenMetadata(req.header, now) IN
    IF claims.err # NoErr
    THEN NoOpDone(response(NilData, 500, claims.err), coll)
    ELSE IF now > claims.Expires
    THEN NoOpDone(response(NilData, 401, ErrUnauthorized), coll)
    ELSE IF req.id = <<>>
    THEN NoOpDone(response(NilData, 422, ErrNoId), coll)
    ELSE LET r == deleteOne(coll, req.id, io) IN
         Done(response(NilData, 204, r.err),
              Op("deleteOne", r.oid, r.err, r.called), r.coll, 0)

(* -------------------------------- Router ------------------------------ *)

RouteNames ==
    {"GET /health", "GET /token/new", "GET /travels", "GET /travels/:id",
     "POST /travels", "PUT /travels/:id", "DELETE /travels/:id"}

\* Routes: which paths have JWTProtected() in front of their handler
Routes ==
    [r \in RouteNames |->
        [protected |-> r \in {"POST /travels", "PUT /travels/:id", "DELETE /travels/:id"}]]

(* ------------------------------- clients ------------------------------ *)

\* a signature made without the secret, on a claim that never expires in the model
ForgedCred == SignedString(60 * (MaxTicks + 1), "guess")

\* an issued token whose exp claim was moved, carrying the old signature
Tampered(tok) == [tok EXCEPT !.exp = @ + 60]

IssuedCreds == {t.tok : t \in issued}

Request(route, header, id, body) ==
    [route |-> route, header |-> header, id |-> id, body |-> body]

\* Authorization headers the middleware and the handler both read a server token from
IssuedHeaders == {Header("Bearer", " ", c) : c \in IssuedCreds}

\* the other headers: none, another scheme, no token, a foreign signature, a moved
\* exp claim, and a server token after a separator that is not a space
OtherHeaders ==
    {NoHeader, Header("Basic", " ", GarbageCred), Header("Bearer", " ", GarbageCred),
     Header("Bearer", " ", ForgedCred)}
    \cup {Header("Bearer", " ", Tampered(c)) : c \in IssuedCreds}
    \cup {Header("Bearer", "=", c) : c \in IssuedCreds}

IdsOf(route) ==
    IF route \in {"GET /travels/:id", "PUT /travels/:id", "DELETE /travels/:id"}
    THEN PathIds
    ELSE {<<>>}

BodiesOf(route) ==
    IF route \in {"POST /travels", "PUT /travels/:id"} THEN Bodies ELSE {GarbageBody}

\* a request whose path id and body are both valid for its route
ValidRequest(route, h) ==
    Request(route, h,
            IF IdsOf(route) # {<<>>} THEN Hex(1) ELSE <<>>,
            IF BodiesOf(route) # {GarbageBody}
            THEN JsonBody(Hex(1), "b", "q", TRUE)
            ELSE GarbageBody)

\* a request with no path id and a body that does not decode
InvalidRequest(route, h) == Request(route, h, <<>>, GarbageBody)

\* the requests clients send to a route: with a server token, any path id and body;
\* with another header, one valid and one invalid request
ClientRequests(route) ==
    IF route \in {"POST /travels", "PUT /travels/:id", "DELETE /travels/:id"}
    THEN {Request(route, h, id, b) : h \in IssuedHeaders, id \in IdsOf(route),
                                     b \in BodiesOf(route)}
         \cup {ValidRequest(route, h) : h \in OtherHeaders}
         \cup {InvalidRequest(route, h) : h \in OtherHeaders}
    ELSE {Request(route, NoHeader, id, GarbageBody) : id \in IdsOf(route)}

\* outcomes of the driver call: it answers, or the 20 s deadline or the transport fails it
IOOutcomes == {NoErr, IOErr}

\* seconds that pass between the middleware's time.Now() and the handler's
Gaps == {0, 1}

(* -------------------------------- state ------------------------------- *)

\* the handler goroutines of the PUT requests being served at the same time
Slots == 1..MaxInflight

\* a slot no request has taken
IdleSlot ==
    [pc |-> "idle", req |-> Request("none", NoHeader, <<>>, GarbageBody), now |-> 0,
     status |-> 0, err |-> NoErr, order |-> 0, hit |-> FALSE]

NoResp ==
    [route |-> "none", header |-> NoHeader, id |-> <<>>, body |-> GarbageBody,
     status |-> 0, out |-> NilData, op |-> Op("none", NilObjectID, NoErr, FALSE),
     reached |-> FALSE, now |-> 0, io |-> NoErr, before |-> <<>>]

Init ==
    /\ clock = 0
    /\ ticks = 0
    /\ minutesCount \in 1..MaxMinutes
    /\ issued = {}
    /\ Collection = <<>>
    /\ nextId = 0
    /\ resp = NoResp
    /\ pristine = {}
    /\ deleted = {}
    /\ removed = {}
    /\ inflight = [s \in Slots |-> IdleSlot]

\* a minute passes between two requests
Tick ==
    /\ resp = NoResp
    /\ ticks < MaxTicks
    /\ clock' = clock + 60
    /\ ticks' = ticks + 1
    /\ UNCHANGED <<minutesCount, issued, Collection, nextId, resp,
                   pristine, deleted, removed, inflight>>

\* app.Listen: the response is written and the server takes the next request
Listen ==
    /\ resp # NoResp
    /\ resp' = NoResp
    /\ UNCHANGED <<clock, ticks, minutesCount, issued, Collection, nextId,
                   pristine, deleted, removed, inflight>>

\* the middleware answered the request itself: the handler is not called
Reject(req, reply) ==
    /\ resp' = [route |-> req.route, header |-> req.header, id |-> req.id,
                body |-> req.body, status |-> reply.status, out |-> reply.out,
                op |-> Op("none", NilObjectID, NoErr, FALSE), reached |-> FALSE,
                now |-> clock, io |-> NoErr, before |-> Collection]
    /\ UNCHANGED <<clock, ticks, minutesCount, Collection, nextId,
                   pristine, deleted, removed, inflight>>

\* the handler ran at time now and left r
Serve(req, now, io, r) ==
    /\ nextId + r.newIds <= MaxIds
    /\ Collection' = r.coll
    /\ nextId' = nextId + r.newIds
    /\ resp' = [route |-> req.route, header |-> req.header, id |-> req.id,
                body |-> req.body, status |-> r.status, out |-> r.out, op |-> r.op,
                reached |-> TRUE, now |-> now,
                io |-> IF r.op.db THEN io ELSE NoErr, before |-> Collection]
    /\ pristine' =
          IF r.op.kind = "insertOne" /\ r.op.err = NoErr
          THEN pristine \cup {[oid |-> r.op.oid, body |-> req.body]}
          ELSE IF r.op.kind \in {"updateOne", "deleteOne"} /\ r.op.err = NoErr
          THEN {p \in pristine : p.oid # r.op.oid}
          ELSE pristine
    /\ deleted' =
          IF r.op.kind = "deleteOne" /\ r.op.err = NoErr
          THEN deleted \cup {r.op.oid}
          ELSE deleted
    /\ removed' =
          IF r.op.kind = "deleteOne" /\ r.op.err = NoErr /\ Match(Collection, r.op.oid) # {}
          THEN removed \cup {r.op.oid}
          ELSE removed
    /\ clock' = now
    /\ ticks' = ticks + (now - clock)
    /\ UNCHANGED <<minutesCount, inflight>>

\* one request through the chain registered for its route
Through(req, gap, io, r) ==
    LET m == JWTProtected(req.header, clock) IN
    /\ resp = NoResp
    /\ IF Routes[req.route].protected /\ ~m.pass
       THEN gap = 0 /\ io = NoErr /\ Reject(req, m.reply)
       ELSE /\ ticks + gap <= MaxTicks
            /\ ~Routes[req.route].protected => gap = 0
            /\ Serve(req, clock + gap, io, r)

Health ==
    \E req \in ClientRequests("GET /health") :
        /\ Through(req, 0, NoErr, health(req, clock, Collection, nextId + 1, NoErr))
        /\ UNCHANGED issued

TokenNew ==
    \E req \in ClientRequests("GET /token/new") :
        /\ Cardinality(issued) < MaxTokens
        /\ Through(req, 0, NoErr, GetNewAccessToken(req, clock, Collection, nextId + 1, NoErr))
        /\ issued' = issued \cup
              {[at |-> clock, tok |-> GenerateNewAccessToken(clock, minutesCount)]}

GetTravels ==
    \E req \in ClientRequests("GET /travels"), io \in IOOutcomes :
        /\ Through(req, 0, io, getTravels(req, clock, Collection, nextId + 1, io))
        /\ UNCHANGED issued

GetTravel ==
    \E req \in ClientRequests("GET /travels/:id"), io \in IOOutcomes :
        /\ Through(req, 0, io, getTravel(req, clock, Collection, nextId + 1, io))
        /\ UNCHANGED issued

CreateTravel ==
    \E req \in ClientRequests("POST /travels"), gap \in Gaps, io \in IOOutcomes :
        /\ Through(req, gap, io, createTravel(req, clock + gap, Collection, nextId + 1, io))
        /\ UNCHANGED issued

UpdateTravel ==
    \E req \in ClientRequests("PUT /travels/:id"), gap \in Gaps, io \in IOOutcomes :
        /\ Through(req, gap, io, updateTravel(req, clock + gap, Collection, nextId + 1, io))
        /\ UNCHANGED issued

DeleteTravel ==
    \E req \in ClientRequests("DELETE /travels/:id"), gap \in Gaps, io \in IOOutcomes :
        /\ Through(req, gap, io, deleteTravel(req, clock + gap, Collection, nextId + 1, io))
        /\ UNCHANGED issued

Next ==
    \/ Tick
    \/ Listen
    \/ Health
    \/ TokenNew
    \/ GetTravels
    \/ GetTravel
    \/ CreateTravel
    \/ UpdateTravel
    \/ DeleteTravel

Spec == Init /\ [][Next]_vars

TypeOK ==
    /\ clock \in Nat
    /\ ticks \in 0..MaxTicks
    /\ nextId \in 0..MaxIds
    /\ \A i \in 1..Len(Collection) : Collection[i].ObjectID \in 1..nextId

(* ------------------------- concurrent updates ------------------------- *)

\* the PUT requests served at the same time: with a server token or without a
\* header, for the ids the store hands out, with the bodies that decode
RaceRequests ==
    {Request("PUT /travels/:id", h, Hex(i), b) :
        h \in IssuedHeaders \cup {NoHeader}, i \in 1..MaxIds,
        b \in {c \in Bodies : c.json}}

\* no handler is between its start and its repository call
Quiet == \A s \in Slots : inflight[s].pc # "handler"

\* a PUT request arrives while others are being served: the middleware answers it,
\* or its handler starts and reads the clock
BeginUpdate(s) ==
    \E req \in RaceRequests, gap \in Gaps :
        LET m == JWTProtected(req.header, clock) IN
        /\ resp = NoResp
        /\ inflight[s].pc = "idle"
        /\ \A t \in Slots : t < s => inflight[t].pc # "idle"
        /\ IF m.pass
           THEN /\ ticks + gap <= MaxTicks
                /\ inflight' = [inflight EXCEPT ![s] =
                      [@ EXCEPT !.pc = "handler", !.req = req, !.now = clock + gap]]
                /\ clock' = clock + gap
                /\ ticks' = ticks + gap
           ELSE /\ gap = 0
                /\ inflight' = [inflight EXCEPT ![s] =
                      [@ EXCEPT !.pc = "done", !.req = req, !.now = clock,
                                !.status = m.reply.status, !.err = m.reply.out.msg]]
                /\ UNCHANGED <<clock, ticks>>
        /\ UNCHANGED <<minutesCount, issued, Collection, nextId, resp,
                       pristine, deleted, removed>>

\* the handler in slot s checks its token and input, its ReplaceOne is applied to
\* the collection as it is now, and it responds
EndUpdate(s) ==
    \E io \in IOOutcomes :
        LET f == inflight[s]
            r == updateTravel(f.req, f.now, Collection, nextId + 1, io)
            applied == r.op.kind = "updateOne" /\ r.op.db /\ r.op.err = NoErr
        IN  /\ f.pc = "handler"
            /\ ~r.op.db => io = NoErr
            /\ Collection' = r.coll
            /\ inflight' = [inflight EXCEPT ![s] =
                  [@ EXCEPT !.pc = "done", !.status = r.status,
                            !.err = IF r.out.kind = "error" THEN r.out.msg ELSE NoErr,
                            !.order = IF applied
                                      THEN 1 + Cardinality({t \in Slots : inflight[t].order > 0})
                                      ELSE 0,
                            !.hit = applied /\ Match(Collection, r.op.oid) # {}]]
            /\ pristine' = IF applied THEN {p \in pristine : p.oid # r.op.oid}
                           ELSE pristine
            /\ UNCHANGED <<clock, ticks, minutesCount, issued, nextId, resp,
                           deleted, removed>>

\* before the concurrent PUTs arrive, requests are served one at a time
Sequential ==
    /\ \A s \in Slots : inflight[s].pc = "idle"
    /\ (Tick \/ Listen \/ TokenNew \/ CreateTravel)

RaceNext ==
    \/ Sequential
    \/ \E s \in Slots : BeginUpdate(s)
    \/ \E s \in Slots : EndUpdate(s)

RaceSpec == Init /\ [][RaceNext]_vars

(* ------------------------------- claims ------------------------------- *)

ProtectedRoutes == {"POST /travels", "PUT /travels/:id", "DELETE /travels/:id"}

PublicRoutes == {"GET /health", "GET /token/new", "GET /travels", "GET /travels/:id"}

Mutating == {"insertOne", "updateOne", "deleteOne"}

\* the header carries, after "Bearer ", a token signed with the configured secret
SignedBySecret(h) ==
    /\ h.scheme = "Bearer"
    /\ h.sep = " "
    /\ h.cred.segments = 3
    /\ h.cred.sig = HMAC(JWT_SECRET_KEY, h.cred.exp)

ExpiredToken ==
    /\ resp.route \in ProtectedRoutes
    /\ SignedBySecret(resp.header)
    /\ resp.header.cred.exp < resp.now

\* C2: on a protected route, a request whose token is signature-valid but expired
\* is answered 401 and no repository call is made for it.
C2_ExpiredIs401 ==
    ExpiredToken => (resp.status = 401 /\ resp.op.kind = "none")

\* the Authorization header is absent or is not "Bearer" followed by a credential
MalformedHeader(h) == h.scheme # "Bearer" \/ h.cred.segments = 0

\* the credential is not a token signed with the configured secret
BadToken(h) ==
    h.cred.segments # 3 \/ h.cred.sig # HMAC(JWT_SECRET_KEY, h.cred.exp)

InvalidInput ==
    /\ resp.route \in ProtectedRoutes =>
          (SignedBySecret(resp.header) /\ resp.header.cred.exp >= resp.now)
    /\ \/ resp.route \in {"GET /travels/:id", "PUT /travels/:id", "DELETE /travels/:id"}
          /\ resp.id = <<>>
       \/ resp.route \in {"POST /travels", "PUT /travels/:id"}
          /\ ~resp.body.json

\* C4: a request that fails input validation (empty path id, body that does not
\* decode) is answered 422 and makes no repository call.
C4_InvalidIs422 ==
    InvalidInput => (resp.status = 422 /\ resp.op.kind = "none")

\* C5: once the handler has called the repository the status depends only on the
\* outcome: any error gives 500 with {"error": message}; success gives 200 with the
\* list, 200 with the record, 200 with the created record and its assigned id, or
\* 204 for PUT and DELETE.
C5_StatusFromStore ==
    resp.op.kind # "none" =>
        /\ resp.op.err # NoErr =>
              /\ resp.status = 500
              /\ resp.out = [kind |-> "error", travels |-> <<>>, msg |-> resp.op.err]
        /\ (resp.op.err = NoErr /\ resp.route = "GET /travels") =>
              /\ resp.status = 200
              /\ resp.out.kind = "travels"
              /\ resp.out.travels = [i \in 1..Len(Collection) |-> TravelJSON(Collection[i])]
        /\ (resp.op.err = NoErr /\ resp.route = "GET /travels/:id") =>
              /\ resp.status = 200
              /\ resp.out.kind = "travel"
              /\ \E i \in 1..Len(Collection) :
                    /\ resp.out.travels = <<TravelJSON(Collection[i])>>
                    /\ Hex(Collection[i].ObjectID) = resp.id
        /\ (resp.op.err = NoErr /\ resp.route = "POST /travels") =>
              /\ resp.status = 200
              /\ resp.out.kind = "travel"
              /\ resp.out.travels =
                    <<[id |-> Hex(nextId), name |-> resp.body.name,
                       photo |-> resp.body.photo, done |-> resp.body.done]>>
        /\ (resp.op.err = NoErr /\ resp.route \in {"PUT /travels/:id", "DELETE /travels/:id"}) =>
              /\ resp.status = 204
              /\ resp.out = NilData

\* a lookup of an id that is not stored was answered 500
C5_Witness ==
    /\ resp.route = "GET /travels/:id"
    /\ resp.op.err = ErrNoDocuments
    /\ resp.status = 500

\* the path id of the exchange parses to oid
ParsesTo(oid) == ObjectIDFromHex(resp.id) = [oid |-> oid, err |-> NoErr]

\* C6: findOne of the id that insertOne assigned to payload P, with no update or
\* delete of that id in between, returns name, photo and done of P under the assigned
\* id; the assigned id is the one stored and returned, whatever id P carried.
C6_InsertThenFind ==
    /\ \A p \in pristine :
          (resp.op.kind = "findOne" /\ resp.io = NoErr /\ ParsesTo(p.oid)) =>
              /\ resp.op.err = NoErr
              /\ resp.status = 200
              /\ resp.out.travels =
                    <<[id |-> Hex(p.oid), name |-> p.body.name,
                       photo |-> p.body.photo, done |-> p.body.done]>>
    /\ (resp.op.kind = "insertOne" /\ resp.op.err = NoErr) =>
          /\ resp.op.oid = nextId
          /\ Match(resp.before, nextId) = {}
          /\ Collection =
                Append(resp.before,
                       Travel(nextId, resp.body.name, resp.body.photo, resp.body.done))

\* a record whose payload carried another id was found under the id assigned to it
C6_Witness ==
    /\ resp.op.kind = "findOne"
    /\ resp.status = 200
    /\ \E p \in pristine :
          /\ ParsesTo(p.oid)
          /\ p.body.id # <<>>
          /\ p.body.id # Hex(p.oid)

\* the path id is well formed and no record of the collection had it
AbsentId ==
    /\ ObjectIDFromHex(resp.id).err = NoErr
    /\ Match(resp.before, ObjectIDFromHex(resp.id).oid) = {}
    /\ resp.io = NoErr

\* C7: for a well-formed id that is not in the store, findOne fails with not-found,
\* deleteOne succeeds and changes nothing, updateOne succeeds and changes nothing
\* (it creates no record).
C7_AbsentId ==
    /\ (resp.op.kind = "findOne" /\ AbsentId) =>
          (resp.op.err = ErrNoDocuments /\ Collection = resp.before)
    /\ (resp.op.kind = "deleteOne" /\ AbsentId) =>
          (resp.op.err = NoErr /\ resp.status = 204 /\ Collection = resp.before)
    /\ (resp.op.kind = "updateOne" /\ AbsentId) =>
          (resp.op.err = NoErr /\ resp.status = 204 /\ Collection = resp.before)

\* an update of an id that is not stored succeeded while another record is stored
C7_Witness ==
    /\ resp.op.kind = "updateOne"
    /\ AbsentId
    /\ resp.op.err = NoErr
    /\ Len(Collection) > 0

\* no record with an id of S is stored, listed or found
Gone(S) ==
    /\ \A oid \in S : Match(Collection, oid) = {}
    /\ (resp.op.kind = "findAll" /\ resp.op.err = NoErr) =>
          \A i \in 1..Len(resp.out.travels) :
              \A oid \in S : resp.out.travels[i].id # Hex(oid)
    /\ (resp.op.kind = "findOne" /\ resp.op.oid \in S) => resp.op.err # NoErr

\* C8 as stated: after deleteOne(id) has succeeded for an identifier id, no later
\* findAll lists a record with that id and every later findOne(id) fails.
C8_DeletedStaysGone == Gone(deleted)

\* C8 amended: the same, for the id of a record that deleteOne removed.
C8_RemovedStaysGone == Gone(removed)

\* after a record was removed and another inserted, the list was read
C8_Witness ==
    /\ removed # {}
    /\ resp.op.kind = "findAll"
    /\ resp.op.err = NoErr
    /\ Len(resp.out.travels) > 0

\* the request presents the issued token t after "Bearer "
Presents(t) == resp.route \in ProtectedRoutes /\ resp.header = Header("Bearer", " ", t.tok)

\* the exchange ended in one of the token failures
AuthFailure ==
    \/ resp.status \in {400, 401}
    \/ resp.out.kind = "jwtError"
    \/ resp.out.kind = "error"
       /\ resp.out.msg \in {ErrMissingJWT, ErrSegments, ErrSignature, ErrExpired, ErrUnauthorized}

\* C9: a token issued at time t with lifetime L minutes is accepted by verify, which
\* returns the expiration t + 60*L, at every time from t to t + 60*L; a protected
\* request presenting it within that window passes the token checks.
C9_TokenRoundTrip ==
    \A t \in issued :
        /\ t.tok.exp = t.at + 60 * minutesCount
        /\ \A v \in {t.at, clock, t.at + 60 * minutesCount} :
              (t.at <= v /\ v <= t.at + 60 * minutesCount) =>
                  ExtractTokenMetadata(Header("Bearer", " ", t.tok), v)
                      = [Expires |-> t.at + 60 * minutesCount, err |-> NoErr]
        /\ (Presents(t) /\ resp.now <= t.at + 60 * minutesCount) =>
              (resp.reached /\ ~AuthFailure)

\* a record was inserted with a token presented in the last second of its lifetime
C9_Witness ==
    \E t \in issued :
        /\ Presents(t)
        /\ resp.now = t.at + 60 * minutesCount
        /\ resp.now > t.at
        /\ resp.op.kind = "insertOne"
        /\ resp.status = 200

\* C10: updateOne with an id that does not parse does not report success: it fails
\* with an error and leaves the store unchanged.
C10_UpdateRejectsBadId ==
    (resp.op.kind = "updateOne" /\ ObjectIDFromHex(resp.id).err # NoErr) =>
        /\ resp.op.err # NoErr
        /\ resp.status = 500
        /\ Collection = resp.before

\* the messages of the token failures and of the input failures
AuthMessages == {ErrMissingJWT, ErrSegments, ErrSignature, ErrExpired, ErrUnauthorized}

InputMessages == {ErrNoId, ErrBody}

\* the credential of the exchange fails: not a token signed with the secret after
\* "Bearer ", or one whose exp claim is before the clock of the check
FailingCredential ==
    ~(SignedBySecret(resp.header) /\ resp.header.cred.exp >= resp.now)

\* the path id is empty or the body does not decode, where the route needs them
BadInput ==
    \/ resp.route \in {"PUT /travels/:id", "DELETE /travels/:id"} /\ resp.id = <<>>
    \/ resp.route \in {"POST /travels", "PUT /travels/:id"} /\ ~resp.body.json

\* the repository method the handler of a protected route delegates to
StoreOpOf(route) ==
    IF route = "POST /travels" THEN "insertOne"
    ELSE IF route = "PUT /travels/:id" THEN "updateOne"
    ELSE "deleteOne"

\* C11: a protected request goes through verify, check-expiry, validate-input,
\* delegate, respond in this order and stops at the first failing step: a failing
\* credential is answered with the token failure whatever the input is, invalid
\* input with the input failure, the repository is called (once, by the method of
\* the route) only when both passed, the store changes only by that call, and the
\* exchange carries one response.
C11_StepsInOrder ==
    resp.route \in ProtectedRoutes =>
        /\ FailingCredential =>
              /\ resp.out.kind \in {"jwtError", "error"}
              /\ resp.out.msg \in AuthMessages
              /\ resp.op.kind = "none"
        /\ (~FailingCredential /\ BadInput) =>
              /\ resp.reached
              /\ resp.out.kind = "error"
              /\ resp.out.msg \in InputMessages
              /\ resp.op.kind = "none"
        /\ (~FailingCredential /\ ~BadInput) =>
              /\ resp.reached
              /\ resp.op.kind = StoreOpOf(resp.route)
        /\ resp.op.kind \in {"none", StoreOpOf(resp.route)}
        /\ Collection # resp.before => (resp.op.db /\ resp.op.err = NoErr)
        /\ resp.status \in {200, 204, 400, 401, 422, 500}

\* a PUT with no path id whose token expired before the handler read the clock was
\* answered with the token failure
C11_Witness ==
    /\ resp.route = "PUT /travels/:id"
    /\ resp.reached
    /\ SignedBySecret(resp.header)
    /\ resp.header.cred.exp < resp.now
    /\ BadInput
    /\ resp.out.msg = ErrExpired

\* the requests whose ReplaceOne was applied to the stored record oid
Applied(oid) ==
    {s \in Slots : inflight[s].hit /\ ObjectIDFromHex(inflight[s].req.id).oid = oid}

\* among them, the one whose ReplaceOne was applied last
LastApplied(oid) ==
    CHOOSE s \in Applied(oid) : \A t \in Applied(oid) : inflight[t].order <= inflight[s].order

\* C12: whatever the interleaving of concurrent authorized PUTs, a stored record
\* that some of them replaced has name, photo and done of the body of the request
\* whose replace was applied last, under the path id; every other record is still
\* the record that was created.
C12_LastWriteWins ==
    \A i \in 1..Len(Collection) :
        LET oid == Collection[i].ObjectID IN
        IF Applied(oid) # {}
        THEN LET b == inflight[LastApplied(oid)].req.body IN
             Collection[i] = Travel(oid, b.name, b.photo, b.done)
        ELSE \E p \in pristine :
                /\ p.oid = oid
                /\ Collection[i] = Travel(oid, p.body.name, p.body.photo, p.body.done)

\* two PUTs for the same stored id with different bodies ran at the same time and
\* both completed, the one that arrived first being applied last, while another
\* record is stored
C12_Witness ==
    /\ Quiet
    /\ Len(Collection) = 2
    /\ inflight[1].hit
    /\ inflight[2].hit
    /\ inflight[1].req.id = inflight[2].req.id
    /\ inflight[1].req.body # inflight[2].req.body
    /\ inflight[1].order = 2
    /\ inflight[2].order = 1

\* the ids of the records of a collection
IdsIn(coll) == {coll[i].ObjectID : i \in 1..Len(coll)}

\* C13: no two stored records have the same id; the set of stored ids changes only
\* by insertOne adding one id never used before or by deleteOne removing one;
\* updateOne adds no record, removes none and changes no id: the record it replaced
\* is stored under the path id, whatever id the body carried.
C13_IdsUniqueAndStable ==
    /\ \A i, j \in 1..Len(Collection) :
          Collection[i].ObjectID = Collection[j].ObjectID => i = j
    /\ (resp # NoResp /\ IdsIn(Collection) # IdsIn(resp.before)) =>
          \/ /\ resp.op.kind = "insertOne"
             /\ resp.op.err = NoErr
             /\ resp.op.oid \notin IdsIn(resp.before) \cup removed
             /\ IdsIn(Collection) = IdsIn(resp.before) \cup {resp.op.oid}
          \/ /\ resp.op.kind = "deleteOne"
             /\ resp.op.err = NoErr
             /\ resp.op.oid \in IdsIn(resp.before)
             /\ IdsIn(Collection) = IdsIn(resp.before) \ {resp.op.oid}
    /\ resp.op.kind = "updateOne" =>
          /\ Len(Collection) = Len(resp.before)
          /\ \A i \in 1..Len(Collection) :
                Collection[i].ObjectID = resp.before[i].ObjectID
          /\ Collection # resp.before =>
                /\ ParsesTo(resp.op.oid)
                /\ \E i \in 1..Len(Collection) :
                      Collection[i] = Travel(resp.op.oid, resp.body.name,
                                             resp.body.photo, resp.body.done)

\* a stored record was replaced by a body that carried the id of another stored
\* record
C13_Witness ==
    /\ resp.op.kind = "updateOne"
    /\ resp.op.err = NoErr
    /\ Collection # resp.before
    /\ resp.body.id # <<>>
    /\ resp.body.id # resp.id
    /\ ObjectIDFromHex(resp.body.id).oid \in IdsIn(resp.before)

====
